---- MODULE Spec2Model ----
(***************************************************************************)
(* Blog-Writer-Agent: the LangGraph pipeline of src/graph.py               *)
(* (researcher -> writer -> reviewer -> seo -> controller -> ...), the     *)
(* state record of src/models.py and the text metrics the writer computes. *)
(* Text is a sequence of one-character strings.  The replies of the        *)
(* language model and of the search service are inputs, drawn from small   *)
(* sets; a reply is given as the labelled sections the parsers look for.   *)
(* Spec is the run of the graph, MainSpec the process of src/main.py that  *)
(* runs the graph and exports its result, TextSpec the application of the  *)
(* text metrics of src/models.py to bounded texts.                         *)
(***************************************************************************)
EXTENDS Integers, Sequences, FiniteSets, TLC

VARIABLES state, pc, trace, prompt, searchCalls, llmCalls,
          args, mainpc, files, exit_code, errors,
          input, result

\* the process of src/main.py around the graph
mainVars == <<args, mainpc, files, exit_code, errors>>
\* the argument and the value of a utility function of src/models.py
textVars == <<input, result>>

vars == <<state, pc, trace, prompt, searchCalls, llmCalls, mainVars, textVars>>

\* ------------------------------------------------------------------------
\* Bounds
\* ------------------------------------------------------------------------
MaxN == 3      \* largest max_iterations a run is started with
NegN == 1      \* runs are also started with max_iterations down to -NegN
MainMaxN == 1  \* largest --iterations the process of main.py is started with
MaxPieces == 3 \* most fragments a text handed to count_code_blocks is made of
MaxLines == 9  \* most lines of a text handed to count_tables
MaxTitleLines == 3 \* most lines of a draft handed to extract_title

\* ------------------------------------------------------------------------
\* Python values
\* ------------------------------------------------------------------------
None == <<>>
Some(x) == <<x>>
Truthy(opt) == opt # <<>>
Min(a, b) == IF a < b THEN a ELSE b
Max(a, b) == IF a > b THEN a ELSE b
OrElse(v, fallback) == IF v = <<>> THEN fallback ELSE v

\* ------------------------------------------------------------------------
\* Text helpers (str methods used by src/models.py)
\* ------------------------------------------------------------------------
NL == "\n"
IsSpace(c) == c \in {" ", NL, "\t"}

StartsWith(s, p) == Len(s) >= Len(p) /\ SubSeq(s, 1, Len(p)) = p
EndsWith(s, p) == Len(s) >= Len(p) /\ SubSeq(s, Len(s) - Len(p) + 1, Len(s)) = p
Slice(s, n) == SubSeq(s, 1, Min(n, Len(s)))
From(s, n) == SubSeq(s, n + 1, Len(s))

RECURSIVE LStrip(_)
LStrip(s) == IF s # <<>> /\ IsSpace(Head(s)) THEN LStrip(Tail(s)) ELSE s
RECURSIVE RStrip(_)
RStrip(s) ==
    IF s # <<>> /\ IsSpace(s[Len(s)]) THEN RStrip(SubSeq(s, 1, Len(s) - 1)) ELSE s
Strip(s) == RStrip(LStrip(s))

\* the positions at which sub occurs in s, and the least of a set of positions
Occurrences(s, sub) ==
    {i \in 1..(Len(s) - Len(sub) + 1) : SubSeq(s, i, i + Len(sub) - 1) = sub}
Least(S) == CHOOSE i \in S : \A j \in S : i <= j

\* str.split(sep) for a one-character separator: always at least one piece;
\* the text is cut at its first separator and the rest split in turn
RECURSIVE Split(_, _)
Split(s, sep) ==
    LET at == Occurrences(s, <<sep>>)
    IN IF at = {} THEN <<s>>
       ELSE <<SubSeq(s, 1, Least(at) - 1)>> \o Split(From(s, Least(at)), sep)

\* str.count(sub): non-overlapping occurrences, scanned left to right; the
\* scan resumes behind the first occurrence
RECURSIVE StrCount(_, _)
StrCount(s, sub) ==
    LET at == Occurrences(s, sub)
    IN IF at = {} THEN 0
       ELSE 1 + StrCount(From(s, Least(at) + Len(sub) - 1), sub)

\* case mapping of the letters that occur in the modelled texts
Lowers == <<"a", "b", "i", "t">>
Uppers == <<"A", "B", "I", "T">>
IsLetter(c) == \E i \in 1..Len(Lowers) : c = Lowers[i] \/ c = Uppers[i]
Upper(c) ==
    IF \E i \in 1..Len(Lowers) : c = Lowers[i]
    THEN Uppers[CHOOSE i \in 1..Len(Lowers) : c = Lowers[i]] ELSE c
Lower(c) ==
    IF \E i \in 1..Len(Uppers) : c = Uppers[i]
    THEN Lowers[CHOOSE i \in 1..Len(Uppers) : c = Uppers[i]] ELSE c
LowerStr(s) == [i \in 1..Len(s) |-> Lower(s[i])]
\* str.title(): a letter is upper-cased after a non-letter, lower-cased otherwise
TitleCase(s) ==
    [i \in 1..Len(s) |->
        IF i = 1 \/ ~IsLetter(s[i - 1]) THEN Upper(s[i]) ELSE Lower(s[i])]

\* ------------------------------------------------------------------------
\* src/models.py: utility functions
\* ------------------------------------------------------------------------
count_words(content) ==
    Cardinality({i \in 1..Len(content) :
        ~IsSpace(content[i]) /\ (i = 1 \/ IsSpace(content[i - 1]))})

\* Tick stands for the backquote character of the fence marker
Tick == "'"
FencePython == <<Tick, Tick, Tick, "p", "y", "t", "h", "o", "n">>
FencePy == <<Tick, Tick, Tick, "p", "y">>
count_code_blocks(content) == StrCount(content, FencePython) + StrCount(content, FencePy)

\* variant of IsTableLine: the line tested without trimming it
IsTableLine_untrimmed(l) == StartsWith(l, <<"|">>) /\ EndsWith(l, <<"|">>)

IsTableLine(l) == StartsWith(Strip(l), <<"|">>) /\ EndsWith(Strip(l), <<"|">>)
count_tables(content) ==
    LET lines == Split(content, NL)
        table_lines == {i \in 1..Len(lines) : IsTableLine(lines[i])}
    IN Max(0, Cardinality(table_lines) \div 3)

\* variant of extract_title: the lines taken from the draft as it is
extract_title_untrimmed(content, fallback) ==
    LET lines == Split(content, NL)
        hits == {i \in 1..Len(lines) : StartsWith(lines[i], <<"#", " ">>)}
    IN IF hits # {}
       THEN Strip(From(lines[CHOOSE i \in hits : \A j \in hits : i <= j], 2))
       ELSE TitleCase(fallback)

extract_title(content, fallback) ==
    LET lines == Split(Strip(content), NL)
        hits == {i \in 1..Len(lines) : StartsWith(lines[i], <<"#", " ">>)}
    IN IF hits # {}
       THEN Strip(From(lines[CHOOSE i \in hits : \A j \in hits : i <= j], 2))
       ELSE TitleCase(fallback)

\* ------------------------------------------------------------------------
\* Inputs: topics, replies of the language model, replies of the search
\* service
\* ------------------------------------------------------------------------
Topics == { <<"a", "i">>, <<"t", " ", "b">> }

\* texts the model can return to the writer
DraftTitled ==
    <<"#", " ", "T", NL, "|", "a", "|", NL, "|", "b", "|", NL, "|", "a", "|", NL,
      Tick, Tick, Tick, "p", "y", "t", "h", "o", "n", NL, "b">>
DraftPlain == <<"a", " ", "b">>
WriterReplies == {DraftTitled, DraftPlain}

\* a reply to the researcher: the bullet items found under each label
SynthesisReplies ==
    { [key_facts |-> <<>>, statistics |-> <<>>, best_practices |-> <<>>,
       recommended_topics |-> <<>>, key_sources |-> <<>>],
      [key_facts |-> <<"f1", "f2">>, statistics |-> <<"s1">>,
       best_practices |-> <<"b1">>, recommended_topics |-> <<>>,
       key_sources |-> <<"k1">>] }

\* a reply to the reviewer: the digits after OVERALL_SCORE (if any) and the
\* bullet items under each label
ReviewReplies ==
    { [score |-> None, strengths |-> <<>>, improvements |-> <<>>,
       priority_fixes |-> <<>>],
      [score |-> Some(15), strengths |-> <<"s1">>, improvements |-> <<"i1">>,
       priority_fixes |-> <<"p1">>],
      [score |-> Some(0), strengths |-> <<"s1">>, improvements |-> <<>>,
       priority_fixes |-> <<"p1">>] }

\* a candidate meta description of 161 characters
LongMeta == [i \in 1..161 |-> IF i % 7 = 0 THEN " " ELSE "a"]

\* a reply to the SEO stage; <<>> is a label that is absent
SeoReplies ==
    { [score |-> None, primary_keywords |-> <<>>, secondary_keywords |-> <<>>,
       optimized_title |-> <<>>, meta_description |-> <<>>,
       content_suggestions |-> <<>>],
      [score |-> Some(8), primary_keywords |-> << <<"a", "i">>, <<"b">> >>,
       secondary_keywords |-> << <<"t">> >>, optimized_title |-> <<"B", "a">>,
       meta_description |-> LongMeta,
       content_suggestions |-> <<"c1">>] }

\* a reply of the search service to one query: "fail" (the call raises) or
\* the answer summary (Tavily only) and the result items
Item(t, u) == [title |-> t, content |-> "text", url |-> u]
SearchOk(ans, items) == [ok |-> TRUE, answer |-> ans, results |-> items]
SearchFail == [ok |-> FALSE, answer |-> "", results |-> <<>>]
SearchWorlds ==
    { [tavily_key |-> FALSE,
       replies |-> <<SearchFail, SearchFail, SearchFail, SearchFail, SearchFail>>],
      [tavily_key |-> TRUE,
       replies |-> <<SearchOk("sum1", <<Item("t1", "u1"), Item("t2", "u2")>>),
                     SearchFail,
                     SearchOk("sum2", <<Item("t1", "u1"), Item("t3", "u3")>>),
                     SearchOk("", <<Item("t4", "u4")>>),
                     SearchOk("", <<>>)>>] }

\* ------------------------------------------------------------------------
\* src/config.py
\* ------------------------------------------------------------------------
RESEARCH_MAX_RESULTS == 10

\* ------------------------------------------------------------------------
\* src/models.py: the state record
\* ------------------------------------------------------------------------
create_initial_state(topic, max_iterations) ==
    [ topic |-> topic,
      current_iteration |-> 1,
      max_iterations |-> max_iterations,
      draft_content |-> <<>>,
      title |-> <<>>,
      research_context |-> None,
      review_feedback |-> None,
      seo_analysis |-> None,
      word_count |-> 0,
      code_block_count |-> 0,
      table_count |-> 0,
      messages |-> <<>>,
      is_complete |-> FALSE,
      final_review_score |-> 0,
      final_seo_score |-> 0 ]

\* variant of Reduce: messages declared without its reducer
Reduce_overwrite(key, old, new) == new

\* the reducer of a state key: messages is Annotated with operator.add, every
\* other key is overwritten by the update
Reduce(key, old, new) == IF key = "messages" THEN old \o new ELSE new

\* LangGraph's merge of a node's partial update into the state
Merge(s, delta) ==
    [k \in DOMAIN s |-> IF k \in DOMAIN delta THEN Reduce(k, s[k], delta[k]) ELSE s[k]]

\* ------------------------------------------------------------------------
\* src/graph.py: web search
\* ------------------------------------------------------------------------
ToResult(item) == [source |-> item.title, content |-> item.content, url |-> item.url]

search_with_tavily(reply) ==
    IF ~reply.ok THEN <<>>
    ELSE (IF reply.answer # ""
          THEN <<[source |-> "Tavily AI Summary", content |-> reply.answer, url |-> ""]>>
          ELSE <<>>)
         \o [i \in 1..Len(reply.results) |-> ToResult(reply.results[i])]

search_with_duckduckgo(reply) ==
    IF ~reply.ok THEN <<>>
    ELSE [i \in 1..Len(reply.results) |-> ToResult(reply.results[i])]

Queries(topic) ==
    << <<topic, "comprehensive guide">>,
       <<topic, "best practices 2024 2025">>,
       <<topic, "research paper academic">>,
       <<topic, "Python implementation example">>,
       <<topic, "industry statistics data">> >>

RECURSIVE Concat(_)
Concat(ss) == IF ss = <<>> THEN <<>> ELSE Head(ss) \o Concat(Tail(ss))

\* variant of seen: results without a url never taken for duplicates
seen_nonblank(r, seen_urls) == r.url # "" /\ r.url \in seen_urls

\* url in seen_urls
seen(r, seen_urls) == r.url \in seen_urls

\* keep the first result of every url
RECURSIVE DedupByUrl(_, _)
DedupByUrl(rs, seen_urls) ==
    IF rs = <<>> THEN <<>>
    ELSE IF seen(Head(rs), seen_urls) THEN DedupByUrl(Tail(rs), seen_urls)
    ELSE <<Head(rs)>> \o DedupByUrl(Tail(rs), seen_urls \cup {Head(rs).url})

\* variant of perform_research: the loop over the queries left at the first
\* query that fails
perform_research_stops(topic, max_results, world) ==
    LET queries == Queries(topic)
        use_tavily == world.tavily_key
        search_func(reply) ==
            IF use_tavily THEN search_with_tavily(reply) ELSE search_with_duckduckgo(reply)
        failed == {q \in 1..Len(queries) : ~world.replies[q].ok}
        last == IF failed = {} THEN Len(queries)
                ELSE (CHOOSE q \in failed : \A p \in failed : q <= p) - 1
        all_results == Concat([q \in 1..last |-> search_func(world.replies[q])])
        unique_results == DedupByUrl(all_results, {})
    IN [ sources |-> Slice(unique_results, max_results),
         search_engine |-> IF use_tavily THEN "Tavily" ELSE "DuckDuckGo",
         queries_used |-> queries,
         total_results |-> Len(unique_results) ]

perform_research(topic, max_results, world) ==
    LET queries == Queries(topic)
        use_tavily == world.tavily_key
        search_func(reply) ==
            IF use_tavily THEN search_with_tavily(reply) ELSE search_with_duckduckgo(reply)
        all_results == Concat([q \in 1..Len(queries) |-> search_func(world.replies[q])])
        unique_results == DedupByUrl(all_results, {})
    IN [ sources |-> Slice(unique_results, max_results),
         search_engine |-> IF use_tavily THEN "Tavily" ELSE "DuckDuckGo",
         queries_used |-> queries,
         total_results |-> Len(unique_results) ]

\* ------------------------------------------------------------------------
\* src/graph.py: the nodes.  Each returns the partial update of the state.
\* ------------------------------------------------------------------------
\* variant of researcher_cached: the cache used from iteration 3 on
researcher_cached_late(s) == s.current_iteration > 2 /\ Truthy(s.research_context)

researcher_cached(s) == s.current_iteration > 1 /\ Truthy(s.research_context)

researcher_prompt(s, world) ==
    [ stage |-> "researcher", iteration |-> s.current_iteration, topic |-> s.topic,
      sources |-> Slice(perform_research(s.topic, RESEARCH_MAX_RESULTS, world).sources, 8) ]

researcher_node(s, world, synthesis) ==
    LET iteration == s.current_iteration
        research_data == perform_research(s.topic, RESEARCH_MAX_RESULTS, world)
        research_context ==
            [ raw_sources |-> research_data.sources,
              search_engine |-> research_data.search_engine,
              key_facts |-> synthesis.key_facts,
              statistics |-> synthesis.statistics,
              best_practices |-> synthesis.best_practices,
              recommended_topics |-> synthesis.recommended_topics,
              key_sources |-> synthesis.key_sources,
              synthesis |-> synthesis ]
    IN IF researcher_cached(s)
       THEN [ messages |-> <<[role |-> "researcher", iteration |-> iteration,
                              status |-> "cached"]>> ]
       ELSE [ research_context |-> Some(research_context),
              messages |-> <<[role |-> "researcher", iteration |-> iteration,
                              sources_found |-> Len(research_context.raw_sources),
                              facts_extracted |-> Len(research_context.key_facts)]>> ]

\* variant of writer_prompt: the initial mode kept through iteration 2
writer_prompt_late(s) ==
    IF s.current_iteration <= 2
    THEN [ stage |-> "writer", mode |-> "initial", iteration |-> s.current_iteration,
           topic |-> s.topic, research |-> s.research_context ]
    ELSE [ stage |-> "writer", mode |-> "refine", iteration |-> s.current_iteration,
           topic |-> s.topic, draft |-> s.draft_content,
           review |-> s.review_feedback, seo |-> s.seo_analysis,
           focus |-> IF s.current_iteration = 2 THEN "depth" ELSE "polish" ]

writer_prompt(s) ==
    IF s.current_iteration = 1
    THEN [ stage |-> "writer", mode |-> "initial", iteration |-> s.current_iteration,
           topic |-> s.topic, research |-> s.research_context ]
    ELSE [ stage |-> "writer", mode |-> "refine", iteration |-> s.current_iteration,
           topic |-> s.topic, draft |-> s.draft_content,
           review |-> s.review_feedback, seo |-> s.seo_analysis,
           focus |-> IF s.current_iteration = 2 THEN "depth" ELSE "polish" ]

Ellipsis == <<".", ".", ".">>

\* variant of writer_node: the table count only ever raised
writer_node_carry(s, content) ==
    LET iteration == s.current_iteration
        word_count == count_words(content)
    IN [ draft_content |-> content,
         title |-> extract_title(content, s.topic),
         word_count |-> word_count,
         code_block_count |-> count_code_blocks(content),
         table_count |-> Max(s.table_count, count_tables(content)),
         messages |-> <<[role |-> "writer", iteration |-> iteration,
                         word_count |-> word_count,
                         content_preview |-> Slice(content, 200) \o Ellipsis]>> ]

writer_node(s, content) ==
    LET iteration == s.current_iteration
        word_count == count_words(content)
    IN [ draft_content |-> content,
         title |-> extract_title(content, s.topic),
         word_count |-> word_count,
         code_block_count |-> count_code_blocks(content),
         table_count |-> count_tables(content),
         messages |-> <<[role |-> "writer", iteration |-> iteration,
                         word_count |-> word_count,
                         content_preview |-> Slice(content, 200) \o Ellipsis]>> ]

\* int(digits): CPython converts a run of at most sys.int_info
\* .default_max_str_digits decimal digits and raises ValueError on a longer one
INT_MAX_STR_DIGITS == 4300
int_raises(ndigits) == ndigits > INT_MAX_STR_DIGITS
\* lengths of the digit runs (\d+) a reply can carry after its score label
ScoreDigitRuns == {1, 2, INT_MAX_STR_DIGITS + 1}

\* variant of parse_score: the labelled integer stored as found
parse_score_unclamped(found) == IF found = None THEN 5 ELSE found[1]

\* min(10, max(1, int(digits))) of the labelled score, 5 when there is none
parse_score(found) == IF found = None THEN 5 ELSE Min(10, Max(1, found[1]))

reviewer_prompt(s) ==
    [ stage |-> "reviewer", iteration |-> s.current_iteration, topic |-> s.topic,
      word_count |-> s.word_count, code_block_count |-> s.code_block_count,
      table_count |-> s.table_count, draft |-> s.draft_content ]

reviewer_node(s, review_text) ==
    LET score == parse_score(review_text.score)
        feedback ==
            [ overall_score |-> score,
              strengths |-> OrElse(review_text.strengths, <<"Content is well-structured">>),
              improvements |-> OrElse(review_text.improvements, <<"Consider adding more depth">>),
              priority_fixes |-> OrElse(review_text.priority_fixes, <<"Expand key sections">>),
              detailed_feedback |-> review_text ]
    IN [ review_feedback |-> Some(feedback),
         messages |-> <<[role |-> "reviewer", iteration |-> s.current_iteration,
                         score |-> score]>> ]

SeoContentBudget == 15000

seo_prompt(s) ==
    [ stage |-> "seo", iteration |-> s.current_iteration, topic |-> s.topic,
      title |-> s.title, draft |-> Slice(s.draft_content, SeoContentBudget) ]

LearnAbout(topic) == <<"Learn about ">> \o topic \o <<" in this comprehensive guide.">>

\* variant of seo_node: the optimized title also stored as the title
seo_node_retitles(s, seo_text) ==
    LET seo_score == parse_score(seo_text.score)
        analysis ==
            [ seo_score |-> seo_score,
              primary_keywords |-> OrElse(seo_text.primary_keywords, <<LowerStr(s.topic)>>),
              secondary_keywords |-> OrElse(seo_text.secondary_keywords, <<>>),
              optimized_title |-> OrElse(seo_text.optimized_title, s.title),
              meta_description |-> OrElse(seo_text.meta_description, LearnAbout(s.topic)),
              content_suggestions |-> OrElse(seo_text.content_suggestions, <<>>),
              detailed_analysis |-> seo_text ]
    IN [ seo_analysis |-> Some(analysis),
         title |-> analysis.optimized_title,
         messages |-> <<[role |-> "seo_optimizer", iteration |-> s.current_iteration,
                         score |-> seo_score]>> ]

seo_node(s, seo_text) ==
    LET seo_score == parse_score(seo_text.score)
        analysis ==
            [ seo_score |-> seo_score,
              primary_keywords |-> OrElse(seo_text.primary_keywords, <<LowerStr(s.topic)>>),
              secondary_keywords |-> OrElse(seo_text.secondary_keywords, <<>>),
              optimized_title |-> OrElse(seo_text.optimized_title, s.title),
              meta_description |-> OrElse(seo_text.meta_description, LearnAbout(s.topic)),
              content_suggestions |-> OrElse(seo_text.content_suggestions, <<>>),
              detailed_analysis |-> seo_text ]
    IN [ seo_analysis |-> Some(analysis),
         messages |-> <<[role |-> "seo_optimizer", iteration |-> s.current_iteration,
                         score |-> seo_score]>> ]

\* variants of iteration_controller: ">=" for ">", the comparison made on the
\* stored counter, the incremented counter stored on completion, the two
\* final scores exchanged
iteration_controller_ge(s) ==
    LET new_iteration == s.current_iteration + 1
    IN IF new_iteration >= s.max_iterations
       THEN [ is_complete |-> TRUE,
              final_review_score |->
                  IF Truthy(s.review_feedback) THEN s.review_feedback[1].overall_score ELSE 0,
              final_seo_score |->
                  IF Truthy(s.seo_analysis) THEN s.seo_analysis[1].seo_score ELSE 0 ]
       ELSE [ current_iteration |-> new_iteration ]

iteration_controller_stale(s) ==
    LET new_iteration == s.current_iteration + 1
    IN IF s.current_iteration > s.max_iterations
       THEN [ is_complete |-> TRUE,
              final_review_score |->
                  IF Truthy(s.review_feedback) THEN s.review_feedback[1].overall_score ELSE 0,
              final_seo_score |->
                  IF Truthy(s.seo_analysis) THEN s.seo_analysis[1].seo_score ELSE 0 ]
       ELSE [ current_iteration |-> new_iteration ]

iteration_controller_stores(s) ==
    LET new_iteration == s.current_iteration + 1
    IN IF new_iteration > s.max_iterations
       THEN [ current_iteration |-> new_iteration,
              is_complete |-> TRUE,
              final_review_score |->
                  IF Truthy(s.review_feedback) THEN s.review_feedback[1].overall_score ELSE 0,
              final_seo_score |->
                  IF Truthy(s.seo_analysis) THEN s.seo_analysis[1].seo_score ELSE 0 ]
       ELSE [ current_iteration |-> new_iteration ]

iteration_controller_swapped(s) ==
    LET new_iteration == s.current_iteration + 1
    IN IF new_iteration > s.max_iterations
       THEN [ is_complete |-> TRUE,
              final_review_score |->
                  IF Truthy(s.seo_analysis) THEN s.seo_analysis[1].seo_score ELSE 0,
              final_seo_score |->
                  IF Truthy(s.review_feedback) THEN s.review_feedback[1].overall_score ELSE 0 ]
       ELSE [ current_iteration |-> new_iteration ]

iteration_controller(s) ==
    LET new_iteration == s.current_iteration + 1
    IN IF new_iteration > s.max_iterations
       THEN [ is_complete |-> TRUE,
              final_review_score |->
                  IF Truthy(s.review_feedback) THEN s.review_feedback[1].overall_score ELSE 0,
              final_seo_score |->
                  IF Truthy(s.seo_analysis) THEN s.seo_analysis[1].seo_score ELSE 0 ]
       ELSE [ current_iteration |-> new_iteration ]

\* ------------------------------------------------------------------------
\* src/graph.py: routing and the graph
\* ------------------------------------------------------------------------
\* variants of should_continue: the two routes exchanged, an exit as soon as
\* the review score is 10
should_continue_inverted(s) == IF s.is_complete THEN "writer" ELSE "end"

should_continue_early(s) ==
    IF s.is_complete \/ (Truthy(s.review_feedback) /\ s.review_feedback[1].overall_score >= 10)
    THEN "end" ELSE "writer"

should_continue(s) == IF s.is_complete THEN "end" ELSE "writer"

\* variant of Edge: the reviewer wired before the writer
Edge_reviewer_first(node) ==
    CASE node = "START" -> "researcher"
      [] node = "researcher" -> "reviewer"
      [] node = "reviewer" -> "writer"
      [] node = "writer" -> "seo"
      [] node = "seo" -> "controller"

\* graph.add_edge: START -> researcher -> writer -> reviewer -> seo -> controller
Edge(node) ==
    CASE node = "START" -> "researcher"
      [] node = "researcher" -> "writer"
      [] node = "writer" -> "reviewer"
      [] node = "reviewer" -> "seo"
      [] node = "seo" -> "controller"

\* graph.add_conditional_edges("controller", should_continue, {...})
ControllerEdge(route) == IF route = "writer" THEN "researcher" ELSE "END"

\* ------------------------------------------------------------------------
\* src/formatters/medium_formatter.py and the export code of src/main.py
\* ------------------------------------------------------------------------
\* a value handed to the exporter: the state dict, or an object with
\* attributes only
Dict(st) == [kind |-> "dict", value |-> st]

\* main.py: class SimpleResult, built from the final state
SimpleResult(st) ==
    [ kind |-> "SimpleResult",
      topic |-> st.topic,
      final_draft |->
          [ raw_content |-> st.draft_content,
            title |-> st.title,
            metadata |->
                [ meta_description |-> st.seo_analysis[1].meta_description,
                  primary_keywords |-> st.seo_analysis[1].primary_keywords ] ] ]

\* BlogExporter.to_html(state): reads its argument with state.get(...), which
\* only a dict has; on any other object the attribute lookup raises
to_html(arg) ==
    IF arg.kind = "dict"
    THEN [ raised |-> FALSE,
           html |-> [ title |-> arg.value.title,
                      description |-> arg.value.seo_analysis[1].meta_description,
                      body |-> arg.value.draft_content ] ]
    ELSE [ raised |-> TRUE, error |-> "AttributeError" ]

\* main.py: the text written to the Markdown file, as its parts in order
markdown_content(r) ==
    LET seo == r.seo_analysis[1]
    IN [ meta_block |->
             [ title |-> r.title,
               meta_description |-> seo.meta_description,
               primary_keywords |-> seo.primary_keywords,
               word_count |-> r.word_count,
               code_examples |-> r.code_block_count,
               tables |-> r.table_count,
               review_score |-> r.final_review_score,
               seo_score |-> r.final_seo_score ],
         content |-> r.draft_content,
         footer |->
             [ reading_time |-> r.word_count \div 200,
               word_count |-> r.word_count,
               tags |-> Slice(seo.primary_keywords, 5) ] ]

\* main.py formats the file as text.  A text is a sequence of strings: the
\* characters of the values and, as one string each, the literal fragments of
\* the f-strings (the pictographs of the footer are left out of them).
Digits == <<"0", "1", "2", "3", "4", "5", "6", "7", "8", "9">>

\* str(n) for n >= 0
RECURSIVE FmtInt(_)
FmtInt(n) ==
    IF n < 10 THEN <<Digits[n + 1]>> ELSE FmtInt(n \div 10) \o <<Digits[(n % 10) + 1]>>

\* f"{n:,}" for n >= 0: groups of three digits separated by commas
RECURSIVE FmtComma(_)
FmtComma(n) ==
    IF n < 1000 THEN FmtInt(n)
    ELSE FmtComma(n \div 1000) \o
         <<",", Digits[((n % 1000) \div 100) + 1], Digits[((n % 100) \div 10) + 1],
           Digits[(n % 10) + 1]>>

\* ', '.join(items)
RECURSIVE JoinComma(_)
JoinComma(items) ==
    IF items = <<>> THEN <<>>
    ELSE IF Len(items) = 1 THEN items[1]
    ELSE items[1] \o <<", ">> \o JoinComma(Tail(items))

\* main.py 166-180: meta_block
meta_block(r) ==
    LET seo == r.seo_analysis[1]
    IN <<"<!--", NL, "BLOG METADATA (Remove before publishing)", NL,
         "========================================", NL>>
       \o <<"Title: ">> \o r.title \o <<NL>>
       \o <<"Meta Description: ">> \o seo.meta_description \o <<NL>>
       \o <<"Primary Keywords: ">> \o JoinComma(seo.primary_keywords) \o <<NL>>
       \o <<"Word Count: ">> \o FmtComma(r.word_count) \o <<NL>>
       \o <<"Code Examples: ">> \o FmtInt(r.code_block_count) \o <<NL>>
       \o <<"Tables: ">> \o FmtInt(r.table_count) \o <<NL>>
       \o <<"Review Score: ">> \o FmtInt(r.final_review_score) \o <<"/10", NL>>
       \o <<"SEO Score: ">> \o FmtInt(r.final_seo_score) \o <<"/10", NL>>
       \o <<"Generated: ", "now", NL>>
       \o <<"-->", NL, NL>>

\* variant of footer: the reading time rounded to the nearest minute
footer_rounded(r) ==
    LET seo == r.seo_analysis[1]
    IN <<NL, NL, "---", NL, NL>>
       \o <<"*Reading time: ~">> \o FmtInt((r.word_count + 100) \div 200)
       \o <<" minutes | ">> \o FmtComma(r.word_count) \o <<" words*", NL, NL>>
       \o <<"**Tags:** ">> \o JoinComma(Slice(seo.primary_keywords, 5)) \o <<NL, NL>>
       \o <<"---", NL, NL,
            "*This article was generated with AI assistance and reviewed for quality and accuracy.*",
            NL>>

\* main.py 183-194: footer
footer(r) ==
    LET seo == r.seo_analysis[1]
    IN <<NL, NL, "---", NL, NL>>
       \o <<"*Reading time: ~">> \o FmtInt(r.word_count \div 200)
       \o <<" minutes | ">> \o FmtComma(r.word_count) \o <<" words*", NL, NL>>
       \o <<"**Tags:** ">> \o JoinComma(Slice(seo.primary_keywords, 5)) \o <<NL, NL>>
       \o <<"---", NL, NL,
            "*This article was generated with AI assistance and reviewed for quality and accuracy.*",
            NL>>

\* main.py 196: full_content = meta_block + content + footer
full_content(r) == meta_block(r) \o r.draft_content \o footer(r)

\* main.py: json_data
json_data(r) ==
    [ title |-> r.title,
      topic |-> r.topic,
      word_count |-> r.word_count,
      code_blocks |-> r.code_block_count,
      tables |-> r.table_count,
      review_score |-> r.final_review_score,
      seo_score |-> r.final_seo_score,
      seo_analysis |-> r.seo_analysis[1] ]

\* output_dir / output_name and Path.with_suffix
output_path == [stem |-> "blog", suffix |-> ".md"]
with_suffix(p, suffix) == [p EXCEPT !.suffix = suffix]

\* ------------------------------------------------------------------------
\* The run of graph.invoke(initial_state): pc is the node the graph executes
\* next, "END" after the graph has finished, "raised" after a node's call to
\* the language model raised (the exception leaves graph.invoke).
\* trace, prompt, searchCalls and llmCalls observe the run: the nodes entered,
\* the last prompt handed to llm.invoke, the calls of search_func and of
\* llm.invoke.
\* ------------------------------------------------------------------------
NoPrompt == [stage |-> "none"]

Init ==
    /\ \E topic \in Topics, max_iterations \in (0 - NegN)..MaxN :
           state = create_initial_state(topic, max_iterations)
    /\ pc = Edge("START")
    /\ trace = <<>>
    /\ prompt = NoPrompt
    /\ searchCalls = 0
    /\ llmCalls = 0
    /\ args = [topic |-> state.topic, iterations |-> state.max_iterations,
               html |-> FALSE, json |-> FALSE, api_key |-> TRUE]
    /\ mainpc = "generate"
    /\ files = {}
    /\ exit_code = None
    /\ errors = {}
    /\ input = <<>>
    /\ result = None

Researcher ==
    /\ pc = "researcher"
    /\ trace' = Append(trace, "researcher")
    /\ \E world \in SearchWorlds, synthesis \in SynthesisReplies :
           /\ state' = Merge(state, researcher_node(state, world, synthesis))
           /\ IF researcher_cached(state)
              THEN UNCHANGED <<prompt, searchCalls, llmCalls>>
              ELSE /\ prompt' = researcher_prompt(state, world)
                   /\ searchCalls' = searchCalls + Len(Queries(state.topic))
                   /\ llmCalls' = llmCalls + 1
    /\ pc' = Edge("researcher")
    /\ UNCHANGED <<mainVars, textVars>>

Writer ==
    /\ pc = "writer"
    /\ trace' = Append(trace, "writer")
    /\ prompt' = writer_prompt(state)
    /\ llmCalls' = llmCalls + 1
    /\ \E content \in WriterReplies : state' = Merge(state, writer_node(state, content))
    /\ pc' = Edge("writer")
    /\ UNCHANGED <<searchCalls, mainVars, textVars>>

Reviewer ==
    /\ pc = "reviewer"
    /\ trace' = Append(trace, "reviewer")
    /\ prompt' = reviewer_prompt(state)
    /\ llmCalls' = llmCalls + 1
    /\ \E review_text \in ReviewReplies :
           state' = Merge(state, reviewer_node(state, review_text))
    /\ pc' = Edge("reviewer")
    /\ UNCHANGED <<searchCalls, mainVars, textVars>>

Seo ==
    /\ pc = "seo"
    /\ trace' = Append(trace, "seo")
    /\ prompt' = seo_prompt(state)
    /\ llmCalls' = llmCalls + 1
    /\ \E seo_text \in SeoReplies : state' = Merge(state, seo_node(state, seo_text))
    /\ pc' = Edge("seo")
    /\ UNCHANGED <<searchCalls, mainVars, textVars>>

Controller ==
    /\ pc = "controller"
    /\ trace' = Append(trace, "controller")
    /\ state' = Merge(state, iteration_controller(state))
    /\ pc' = ControllerEdge(should_continue(state'))
    /\ UNCHANGED <<prompt, searchCalls, llmCalls, mainVars, textVars>>

\* variant of LlmRaises: the failed call made a second time before giving up
LlmRaises_retry ==
    /\ pc \in {"researcher", "writer", "reviewer", "seo"}
    /\ ~(pc = "researcher" /\ researcher_cached(state))
    /\ trace' = Append(trace, pc)
    /\ llmCalls' = llmCalls + 2
    /\ \E world \in SearchWorlds :
           /\ prompt' = CASE pc = "researcher" -> researcher_prompt(state, world)
                          [] pc = "writer" -> writer_prompt(state)
                          [] pc = "reviewer" -> reviewer_prompt(state)
                          [] pc = "seo" -> seo_prompt(state)
           /\ searchCalls' = IF pc = "researcher"
                             THEN searchCalls + Len(Queries(state.topic))
                             ELSE searchCalls
    /\ pc' = "raised"
    /\ UNCHANGED <<state, mainVars, textVars>>

\* llm.invoke raises in the node about to run; the node returns no update
LlmRaises ==
    /\ pc \in {"researcher", "writer", "reviewer", "seo"}
    /\ ~(pc = "researcher" /\ researcher_cached(state))
    /\ trace' = Append(trace, pc)
    /\ llmCalls' = llmCalls + 1
    /\ \E world \in SearchWorlds :
           /\ prompt' = CASE pc = "researcher" -> researcher_prompt(state, world)
                          [] pc = "writer" -> writer_prompt(state)
                          [] pc = "reviewer" -> reviewer_prompt(state)
                          [] pc = "seo" -> seo_prompt(state)
           /\ searchCalls' = IF pc = "researcher"
                             THEN searchCalls + Len(Queries(state.topic))
                             ELSE searchCalls
    /\ pc' = "raised"
    /\ UNCHANGED <<state, mainVars, textVars>>

\* llm.invoke returned in the reviewer or the SEO node and int() raised on the
\* digits found after the score label; the node returns no update
ScoreRaises ==
    /\ pc \in {"reviewer", "seo"}
    /\ \E ndigits \in ScoreDigitRuns : int_raises(ndigits)
    /\ trace' = Append(trace, pc)
    /\ llmCalls' = llmCalls + 1
    /\ prompt' = IF pc = "reviewer" THEN reviewer_prompt(state) ELSE seo_prompt(state)
    /\ pc' = "raised"
    /\ UNCHANGED <<state, searchCalls, mainVars, textVars>>

Next == Researcher \/ Writer \/ Reviewer \/ Seo \/ Controller \/ LlmRaises \/ ScoreRaises

Spec == Init /\ [][Next]_vars

\* ------------------------------------------------------------------------
\* The runs of the graph in which every external call (search, language
\* model) returns; every node that can run does run.
\* ------------------------------------------------------------------------
ReturnNext == Researcher \/ Writer \/ Reviewer \/ Seo \/ Controller \/ ScoreRaises

ReturnSpec == Init /\ [][ReturnNext]_vars /\ WF_vars(ReturnNext)

\* ------------------------------------------------------------------------
\* The process of src/main.py, after the arguments are parsed.  mainpc is the
\* step main() executes next, exit_code the exit status once the process has
\* ended, files the files written, errors the error reports main() printed
\* (missing key, "Generation Error", "Export Error").  pc is "none" until the orchestrator is
\* created and "ready" until generate_blog invokes the graph; state holds the
\* record generate_blog will start from.
\* ------------------------------------------------------------------------
MainInit ==
    /\ \E topic \in Topics, iterations \in (0 - NegN)..MainMaxN,
          html \in BOOLEAN, json \in BOOLEAN, api_key \in BOOLEAN :
           args = [topic |-> topic, iterations |-> iterations,
                   html |-> html, json |-> json, api_key |-> api_key]
    /\ mainpc = "verify_key"
    /\ files = {}
    /\ exit_code = None
    /\ errors = {}
    /\ state = create_initial_state(args.topic, args.iterations)
    /\ pc = "none"
    /\ trace = <<>>
    /\ prompt = NoPrompt
    /\ searchCalls = 0
    /\ llmCalls = 0
    /\ input = <<>>
    /\ result = None

graphVars == <<state, pc, trace, prompt, searchCalls, llmCalls>>

\* variant of VerifyKey: the error is reported but the process goes on
VerifyKey_no_exit ==
    /\ mainpc = "verify_key"
    /\ errors' = IF ~args.api_key THEN errors \cup {"missing_key"} ELSE errors
    /\ mainpc' = "setup"
    /\ UNCHANGED <<args, files, exit_code, graphVars, textVars>>

\* main.py 111-118: the credential check
VerifyKey ==
    /\ mainpc = "verify_key"
    /\ IF ~args.api_key
       THEN /\ errors' = errors \cup {"missing_key"}
            /\ mainpc' = "exited"
            /\ exit_code' = Some(1)
       ELSE mainpc' = "setup" /\ UNCHANGED <<exit_code, errors>>
    /\ UNCHANGED <<args, files, graphVars, textVars>>

\* main.py 120-146: output directory, output name, BlogOrchestrator(...)
Setup ==
    /\ mainpc = "setup"
    /\ pc' = "ready"
    /\ mainpc' = "generate"
    /\ UNCHANGED <<state, trace, prompt, searchCalls, llmCalls, args, files,
                   exit_code, errors, textVars>>

\* generate_blog: create_initial_state and graph.invoke
StartGeneration ==
    /\ mainpc = "generate" /\ pc = "ready"
    /\ state' = create_initial_state(args.topic, args.iterations)
    /\ pc' = Edge("START")
    /\ UNCHANGED <<trace, prompt, searchCalls, llmCalls, mainVars, textVars>>

\* main.py 148-152: generate_blog returns the final state
GenerationReturns ==
    /\ mainpc = "generate" /\ pc = "END"
    /\ mainpc' = "export"
    /\ UNCHANGED <<args, files, exit_code, errors, graphVars, textVars>>

\* main.py 153-157: an exception left generate_blog
GenerationError ==
    /\ mainpc = "generate" /\ pc = "raised"
    /\ errors' = errors \cup {"generation"}
    /\ mainpc' = "exited"
    /\ exit_code' = Some(1)
    /\ UNCHANGED <<args, files, graphVars, textVars>>

\* main.py 160-201: the Markdown file
ExportMarkdown ==
    /\ mainpc = "export"
    /\ files' = files \cup {[path |-> output_path, content |-> markdown_content(state),
                          text |-> full_content(state)]}
    /\ mainpc' = "export_html"
    /\ UNCHANGED <<args, exit_code, errors, graphVars, textVars>>

\* variant of ExportHtml: the export error is reported but not turned into
\* exit code 1
ExportHtml_swallow ==
    /\ mainpc = "export_html"
    /\ IF ~args.html
       THEN UNCHANGED <<files, errors>>
       ELSE LET html_content == to_html(SimpleResult(state))
            IN IF html_content.raised
               THEN errors' = errors \cup {"export"} /\ UNCHANGED files
               ELSE /\ files' = files \cup
                           {[path |-> with_suffix(output_path, ".html"),
                             content |-> html_content.html]}
                    /\ UNCHANGED errors
    /\ mainpc' = "export_json"
    /\ UNCHANGED <<args, exit_code, graphVars, textVars>>

\* main.py 203-224 and 245-249: the optional HTML export
ExportHtml ==
    /\ mainpc = "export_html"
    /\ IF ~args.html
       THEN mainpc' = "export_json" /\ UNCHANGED <<files, exit_code, errors>>
       ELSE LET html_content == to_html(SimpleResult(state))
            IN IF html_content.raised
               THEN /\ errors' = errors \cup {"export"}
                    /\ mainpc' = "exited"
                    /\ exit_code' = Some(1)
                    /\ UNCHANGED files
               ELSE /\ files' = files \cup
                           {[path |-> with_suffix(output_path, ".html"),
                             content |-> html_content.html]}
                    /\ mainpc' = "export_json"
                    /\ UNCHANGED <<exit_code, errors>>
    /\ UNCHANGED <<args, graphVars, textVars>>

\* main.py 226-243: the optional JSON export
ExportJson ==
    /\ mainpc = "export_json"
    /\ IF args.json
       THEN files' = files \cup
                {[path |-> with_suffix(output_path, ".json"), content |-> json_data(state)]}
       ELSE UNCHANGED files
    /\ mainpc' = "finish"
    /\ UNCHANGED <<args, exit_code, errors, graphVars, textVars>>

\* main.py 251-265: the final panel; main() returns
Finish ==
    /\ mainpc = "finish"
    /\ mainpc' = "exited"
    /\ exit_code' = Some(0)
    /\ UNCHANGED <<args, files, errors, graphVars, textVars>>

MainNext ==
    \/ VerifyKey \/ Setup \/ StartGeneration
    \/ Researcher \/ Writer \/ Reviewer \/ Seo \/ Controller \/ LlmRaises \/ ScoreRaises
    \/ GenerationReturns \/ GenerationError
    \/ ExportMarkdown \/ ExportHtml \/ ExportJson \/ Finish

MainSpec == MainInit /\ [][MainNext]_vars

\* ------------------------------------------------------------------------
\* The utility functions of src/models.py applied to bounded texts.  input
\* is the text as the fragments (or lines) it is made of, result the
\* function applied and the value it returned.
\* ------------------------------------------------------------------------
Fence == <<Tick, Tick, Tick>>
FenceJs == <<Tick, Tick, Tick, "j", "s">>
CodePieces == {FencePython, FencePy, Fence, FenceJs, <<NL>>, <<"x", " ">>}

LineTable == <<"|", "a", "|">>
LinePadded == <<" ", "|", "b", "|", " ">>
LinePlain == <<"a", "|">>
TableLines == {LineTable, LinePadded, LinePlain}

SeqsUpTo(S, n) == UNION {[1..k -> S] : k \in 0..n}

\* "\n".join(lines)
RECURSIVE JoinLines(_)
JoinLines(ls) ==
    IF ls = <<>> THEN <<>>
    ELSE IF Len(ls) = 1 THEN ls[1]
    ELSE ls[1] \o <<NL>> \o JoinLines(Tail(ls))

Text(in) ==
    IF in.kind \in {"lines", "draft"} THEN JoinLines(in.parts) ELSE Concat(in.parts)

\* lines of a draft: headings (plain, indented, followed by blanks, empty,
\* second level), a paragraph and an empty line
DraftLines ==
    { <<"#", " ", "T">>, <<" ", "#", " ", "A">>, <<"#", " ", "B", " ", " ">>,
      <<"#", " ">>, <<"#", "#", " ", "T">>, <<"b">>, <<>> }

\* a draft of n words
WordsDraft(n) == [i \in 1..(2 * n - 1) |-> IF i % 2 = 1 THEN "a" ELSE " "]
WordCounts == {0, 3, 199, 200, 1234}

\* the final state of a run of one cycle (generate_blog with max_iterations 1)
RunOnce(topic, world, synthesis, content, review_text, seo_text) ==
    LET s0 == create_initial_state(topic, 1)
        s1 == Merge(s0, researcher_node(s0, world, synthesis))
        s2 == Merge(s1, writer_node(s1, content))
        s3 == Merge(s2, reviewer_node(s2, review_text))
        s4 == Merge(s3, seo_node(s3, seo_text))
    IN Merge(s4, iteration_controller(s4))

ExportResults ==
    { RunOnce(topic, world, synthesis, WordsDraft(n), review_text, seo_text) :
        topic \in Topics, world \in {w \in SearchWorlds : w.tavily_key},
        synthesis \in {y \in SynthesisReplies : y.key_facts = <<>>},
        n \in WordCounts, review_text \in ReviewReplies, seo_text \in SeoReplies }

\* replies of the search service to the q-th query: a failure, two results
\* of its own with an answer summary, or twice the first result of query 1
QueryUrls == << <<"u1", "v1">>, <<"u2", "v2">>, <<"u3", "v3">>, <<"u4", "v4">>,
                <<"u5", "v5">> >>
ReplyOptions(q) ==
    { SearchFail,
      SearchOk("sum", <<Item("t", QueryUrls[q][1]), Item("t", QueryUrls[q][2])>>),
      SearchOk("", <<Item("t", QueryUrls[1][1]), Item("s", QueryUrls[1][1])>>) }
ResearchWorlds ==
    { [tavily_key |-> key, replies |-> replies] :
        key \in BOOLEAN,
        replies \in {r \in [1..5 -> UNION {ReplyOptions(q) : q \in 1..5}] :
                        \A q \in 1..5 : r[q] \in ReplyOptions(q)} }

TextInit ==
    /\ \/ \E parts \in SeqsUpTo(CodePieces, MaxPieces) :
              input = [kind |-> "pieces", parts |-> parts]
       \/ \E parts \in SeqsUpTo(TableLines, MaxLines) :
              input = [kind |-> "lines", parts |-> parts]
       \/ \E r \in ExportResults : input = [kind |-> "result", value |-> r]
       \/ \E parts \in SeqsUpTo(DraftLines, MaxTitleLines), topic \in Topics :
              input = [kind |-> "draft", parts |-> parts, topic |-> topic]
       \/ \E world \in ResearchWorlds, topic \in Topics :
              input = [kind |-> "research", topic |-> topic, world |-> world]
    /\ result = None
    /\ state = create_initial_state(<<>>, 0)
    /\ pc = "none"
    /\ trace = <<>>
    /\ prompt = NoPrompt
    /\ searchCalls = 0
    /\ llmCalls = 0
    /\ args = [topic |-> <<>>, iterations |-> 0,
               html |-> FALSE, json |-> FALSE, api_key |-> FALSE]
    /\ mainpc = "none"
    /\ files = {}
    /\ exit_code = None
    /\ errors = {}

ApplyCountCodeBlocks ==
    /\ result = None /\ input.kind = "pieces"
    /\ result' = Some([fn |-> "count_code_blocks",
                       value |-> count_code_blocks(Text(input))])
    /\ UNCHANGED <<input, graphVars, mainVars>>

ApplyCountTables ==
    /\ result = None /\ input.kind = "lines"
    /\ result' = Some([fn |-> "count_tables", value |-> count_tables(Text(input))])
    /\ UNCHANGED <<input, graphVars, mainVars>>

\* main.py 162-196: the text of the Markdown file for a final state
ApplyFullContent ==
    /\ result = None /\ input.kind = "result"
    /\ result' = Some([fn |-> "full_content", value |-> full_content(input.value)])
    /\ UNCHANGED <<input, graphVars, mainVars>>

\* researcher_node: perform_research(topic, max_results=RESEARCH_MAX_RESULTS)
ApplyPerformResearch ==
    /\ result = None /\ input.kind = "research"
    /\ result' = Some([fn |-> "perform_research",
                       value |-> perform_research(input.topic, RESEARCH_MAX_RESULTS,
                                                  input.world)])
    /\ UNCHANGED <<input, graphVars, mainVars>>

\* writer_node: extract_title(content, state["topic"])
ApplyExtractTitle ==
    /\ result = None /\ input.kind = "draft"
    /\ result' = Some([fn |-> "extract_title",
                       value |-> extract_title(Text(input), input.topic)])
    /\ UNCHANGED <<input, graphVars, mainVars>>

TextNext ==
    \/ ApplyCountCodeBlocks \/ ApplyCountTables \/ ApplyFullContent
    \/ ApplyPerformResearch \/ ApplyExtractTitle

TextSpec == TextInit /\ [][TextNext]_vars

TypeOK ==
    /\ pc \in {"none", "ready", "researcher", "writer", "reviewer", "seo",
                "controller", "END", "raised"}
    /\ state.current_iteration \in Int
    /\ state.is_complete \in BOOLEAN

\* ------------------------------------------------------------------------
\* Vocabulary of the properties
\* ------------------------------------------------------------------------
N == state.max_iterations
Stages == {"researcher", "writer", "reviewer", "seo"}
RoleOf(node) == IF node = "seo" THEN "seo_optimizer" ELSE node
IsPrefix(s, t) == Len(s) <= Len(t) /\ SubSeq(t, 1, Len(s)) = s
CountOf(seq, x) == Cardinality({i \in 1..Len(seq) : seq[i] = x})
MsgsOf(role) == {i \in 1..Len(state.messages) : state.messages[i].role = role}
IsCachedMsg(m) == "status" \in DOMAIN m
LastMsgOf(role) == state.messages[CHOOSE i \in MsgsOf(role) : \A j \in MsgsOf(role) : j <= i]
Cycle == <<"researcher", "writer", "reviewer", "seo", "controller">>
\* the stage sequence of a run of n cycles
ExpectedStages(n) == [i \in 1..(5 * n) |-> Cycle[((i - 1) % 5) + 1]]

\* ------------------------------------------------------------------------
\* C1: when a run with max_iterations = N >= 1 has reached END, the writer,
\* the reviewer and the SEO stage have each executed exactly N times, the
\* researcher's search + synthesis path exactly once (in iteration 1), and
\* every later entry of the researcher took the cached branch.
\* ------------------------------------------------------------------------
C1_StageCounts ==
    (pc = "END" /\ N >= 1) =>
        /\ CountOf(trace, "writer") = N
        /\ CountOf(trace, "reviewer") = N
        /\ CountOf(trace, "seo") = N
        /\ CountOf(trace, "researcher") = N
        /\ searchCalls = Len(Queries(state.topic))
        /\ llmCalls = 3 * N + 1
        /\ Cardinality(MsgsOf("researcher")) = N
        /\ \A i \in MsgsOf("researcher") :
               IsCachedMsg(state.messages[i]) <=> state.messages[i].iteration > 1

C1_Witness == pc = "END" /\ N = 3 /\ CountOf(trace, "researcher") = 3

\* ------------------------------------------------------------------------
\* C2 (as stated): every invocation of the iteration controller increases
\* current_iteration by exactly 1, the completing invocation included.
\* ------------------------------------------------------------------------
C2_Original ==
    [][pc = "controller" => state'.current_iteration = state.current_iteration + 1]_vars

\* C2 (amended): a controller invocation that does not set is_complete
\* increases current_iteration by exactly 1; the invocation that sets
\* is_complete leaves current_iteration unchanged.
C2_ControllerStep ==
    [][pc = "controller" =>
          IF state'.is_complete
          THEN state'.current_iteration = state.current_iteration
          ELSE state'.current_iteration = state.current_iteration + 1]_vars

C2_Witness ==
    pc = "END" /\ N = 2 /\ state.current_iteration = 2 /\ CountOf(trace, "controller") = 2

\* ------------------------------------------------------------------------
\* C3 (as stated): in every reachable state is_complete is true iff the
\* stored current_iteration is greater than max_iterations (read for runs
\* with max_iterations >= 1, where the counter starts within the bound).
\* ------------------------------------------------------------------------
C3_Original == N >= 1 => (state.is_complete <=> state.current_iteration > N)

\* C3 (amended): is_complete becomes true exactly in the controller
\* invocation that finds current_iteration + 1 > max_iterations; the
\* incremented value is not stored, so wherever is_complete is true the
\* stored current_iteration is max_iterations (1 if max_iterations < 1).
C3_CompleteIff ==
    /\ [](state.is_complete => (pc = "END" /\ state.current_iteration = Max(1, N)))
    /\ [][state'.is_complete <=> (pc = "controller" /\ state.current_iteration + 1 > N)]_vars

C3_Witness == state.is_complete /\ N = 3 /\ state.current_iteration = 3

\* ------------------------------------------------------------------------
\* C4: with max_iterations N >= 1, current_iteration never decreases from a
\* state to the next and 1 <= current_iteration <= max_iterations holds in
\* every reachable state.
\* ------------------------------------------------------------------------
C4_IterationBounded ==
    /\ [](N >= 1 => (1 <= state.current_iteration /\ state.current_iteration <= N))
    /\ [][state'.current_iteration >= state.current_iteration]_vars

C4_Witness == pc = "END" /\ N = 2 /\ state.current_iteration = N /\ state.is_complete

\* ------------------------------------------------------------------------
\* C5: is_complete goes from false to true once, in a controller invocation,
\* is never reset, and a state with is_complete true is a state at END from
\* which no stage and no controller invocation executes.
\* ------------------------------------------------------------------------
C5_CompleteOnce ==
    /\ [](state.is_complete <=> pc = "END")
    /\ [][~state.is_complete /\ (state'.is_complete => pc = "controller")]_vars

C5_Witness == state.is_complete /\ pc = "END" /\ Len(trace) = 10

\* ------------------------------------------------------------------------
\* C6: the stages a run executes and the point where it completes are fixed
\* by max_iterations alone: whatever scores the reviewer and the SEO stage
\* store, the stages executed so far are an initial part of Max(1, N) full
\* cycles, and a run at END has executed all of them, with exactly
\* Max(1, N) controller invocations.  Any two runs with the same
\* max_iterations therefore execute the same stages and complete together.
\* ------------------------------------------------------------------------
C6_ScoreIndependent ==
    /\ IsPrefix(trace, ExpectedStages(Max(1, N)))
    /\ pc = "END" =>
          /\ trace = ExpectedStages(Max(1, N))
          /\ CountOf(trace, "controller") = Max(1, N)

\* two completed cycles whose review scores differ and include the best score
C6_Witness ==
    /\ pc = "END" /\ N = 2
    /\ \E i, j \in MsgsOf("reviewer") :
           state.messages[i].score = 10 /\ state.messages[j].score = 1
    /\ \E i, j \in MsgsOf("seo_optimizer") :
           state.messages[i].score = 8 /\ state.messages[j].score = 5

\* ------------------------------------------------------------------------
\* C7: when is_complete is set, final_review_score is the overall_score of
\* the review_feedback the reviewer produced in the last executed iteration
\* and final_seo_score is the seo_score of the seo_analysis of that
\* iteration; a final score is 0 only if the record is absent.
\* ------------------------------------------------------------------------
C7_FinalScores ==
    state.is_complete =>
        /\ MsgsOf("reviewer") # {} /\ MsgsOf("seo_optimizer") # {}
        /\ LastMsgOf("reviewer").iteration = state.current_iteration
        /\ LastMsgOf("seo_optimizer").iteration = state.current_iteration
        /\ state.final_review_score = LastMsgOf("reviewer").score
        /\ state.final_seo_score = LastMsgOf("seo_optimizer").score
        /\ state.final_review_score =
               (IF state.review_feedback = None THEN 0
                ELSE state.review_feedback[1].overall_score)
        /\ state.final_seo_score =
               (IF state.seo_analysis = None THEN 0
                ELSE state.seo_analysis[1].seo_score)

\* the last iteration's scores differ from the first iteration's
C7_Witness ==
    /\ state.is_complete /\ N = 2
    /\ state.final_review_score = 1 /\ state.final_seo_score = 8
    /\ \E i \in MsgsOf("reviewer") : state.messages[i].score = 10
    /\ \E i \in MsgsOf("seo_optimizer") : state.messages[i].score = 5

\* ------------------------------------------------------------------------
\* C8: research_context is set by the researcher in iteration 1 and is never
\* modified afterwards: a researcher execution with current_iteration > 1
\* and a cached context leaves it unchanged and issues no search call and
\* no generation call.
\* ------------------------------------------------------------------------
C8_ResearchCached ==
    /\ [](Truthy(state.research_context) =>
             /\ state.messages[1].role = "researcher"
             /\ state.messages[1].iteration = 1
             /\ ~IsCachedMsg(state.messages[1]))
    /\ [][/\ Truthy(state.research_context) =>
                 state'.research_context = state.research_context
          /\ (pc = "researcher" /\ state.current_iteration > 1
                 /\ Truthy(state.research_context)) =>
                 /\ state'.research_context = state.research_context
                 /\ searchCalls' = searchCalls
                 /\ llmCalls' = llmCalls
                 /\ prompt' = prompt]_vars

C8_Witness ==
    /\ pc = "writer" /\ state.current_iteration = 2
    /\ CountOf(trace, "researcher") = 2
    /\ Truthy(state.research_context)
    /\ state.research_context[1].raw_sources # <<>>

\* ------------------------------------------------------------------------
\* C9: the message log only grows by appending: over every transition the
\* log before is a prefix of the log after, and each execution of the
\* researcher, writer, reviewer and SEO stage appends exactly one record,
\* which carries the stage's role and the current iteration number.
\* ------------------------------------------------------------------------
C9_LogAppendOnly ==
    [][/\ IsPrefix(state.messages, state'.messages)
       /\ (pc \in Stages /\ pc' # "raised") =>
              /\ Len(state'.messages) = Len(state.messages) + 1
              /\ state'.messages[Len(state'.messages)].role = RoleOf(pc)
              /\ state'.messages[Len(state'.messages)].iteration
                     = state.current_iteration]_vars

C9_Witness ==
    /\ pc = "END" /\ Len(state.messages) = 8
    /\ state.messages[5].role = "researcher" /\ state.messages[5].iteration = 2
    /\ state.messages[8].role = "seo_optimizer"

\* ------------------------------------------------------------------------
\* C10: the stages run one at a time in the fixed order researcher, writer,
\* reviewer, SEO, controller within every cycle; the reviewer and the SEO
\* stage of iteration k read the draft the writer wrote in iteration k.
\* ------------------------------------------------------------------------
CycleSucc(node) ==
    CASE node = "researcher" -> "writer"
      [] node = "writer" -> "reviewer"
      [] node = "reviewer" -> "seo"
      [] node = "seo" -> "controller"
      [] node = "controller" -> "researcher"

MsgAt(role, k) ==
    state.messages[CHOOSE i \in MsgsOf(role) : state.messages[i].iteration = k]
HasMsgAt(role, k) == \E i \in MsgsOf(role) : state.messages[i].iteration = k

C11_WriterModes ==
    prompt.stage = "writer" =>
        /\ prompt.mode = "initial" <=> prompt.iteration = 1
        /\ prompt.iteration > 1 =>
              /\ prompt.mode = "refine"
              /\ Truthy(prompt.review) /\ Truthy(prompt.seo)
              /\ HasMsgAt("writer", prompt.iteration - 1)
              /\ HasMsgAt("reviewer", prompt.iteration - 1)
              /\ HasMsgAt("seo_optimizer", prompt.iteration - 1)
              /\ MsgAt("writer", prompt.iteration - 1).content_preview
                     = Slice(prompt.draft, 200) \o Ellipsis
              /\ MsgAt("writer", prompt.iteration - 1).word_count
                     = count_words(prompt.draft)
              /\ MsgAt("reviewer", prompt.iteration - 1).score
                     = prompt.review[1].overall_score
              /\ MsgAt("seo_optimizer", prompt.iteration - 1).score
                     = prompt.seo[1].seo_score

\* the writer of iteration 3 refining a draft that differs from the first
C11_Witness ==
    /\ prompt.stage = "writer" /\ prompt.iteration = 3 /\ prompt.mode = "refine"
    /\ prompt.draft = DraftTitled
    /\ prompt.review[1].overall_score = 1
    /\ HasMsgAt("writer", 1)
    /\ MsgAt("writer", 1).content_preview = DraftPlain \o Ellipsis

\* ------------------------------------------------------------------------
\* C12: in every state after the first writer execution, the stored
\* word_count, code_block_count, table_count and title are the values
\* computed from the stored draft_content (and topic), never values of an
\* earlier draft.
\* ------------------------------------------------------------------------
C12_MetricsFresh ==
    MsgsOf("writer") # {} =>
        /\ state.word_count = count_words(state.draft_content)
        /\ state.code_block_count = count_code_blocks(state.draft_content)
        /\ state.table_count = count_tables(state.draft_content)
        /\ state.title = extract_title(state.draft_content, state.topic)

\* a second draft with fewer tables and no heading after a first with both
C12_Witness ==
    /\ Cardinality(MsgsOf("writer")) = 2
    /\ state.draft_content = DraftPlain
    /\ state.table_count = 0
    /\ state.title = TitleCase(state.topic)
    /\ MsgAt("writer", 1).content_preview = DraftTitled \o Ellipsis
    /\ pc = "END"

\* ------------------------------------------------------------------------
\* C16: the stored review score and the stored SEO score lie in 1..10: with
\* a labelled integer n in the reply the stored value is min(10, max(1, n))
\* (15 is stored as 10, 0 as 1), with none it is 5.
\* ------------------------------------------------------------------------
Clamped(found) ==
    IF found = None THEN 5
    ELSE IF found[1] > 10 THEN 10
    ELSE IF found[1] < 1 THEN 1
    ELSE found[1]

C16_ScoresClamped ==
    /\ Truthy(state.review_feedback) =>
          /\ state.review_feedback[1].overall_score \in 1..10
          /\ state.review_feedback[1].overall_score
                 = Clamped(state.review_feedback[1].detailed_feedback.score)
    /\ Truthy(state.seo_analysis) =>
          /\ state.seo_analysis[1].seo_score \in 1..10
          /\ state.seo_analysis[1].seo_score
                 = Clamped(state.seo_analysis[1].detailed_analysis.score)

\* 15 stored as 10 after 0 was stored as 1, and a reply without a score
C16_Witness ==
    /\ Truthy(state.review_feedback) /\ Truthy(state.seo_analysis)
    /\ state.review_feedback[1].detailed_feedback.score = Some(15)
    /\ state.review_feedback[1].overall_score = 10
    /\ state.seo_analysis[1].detailed_analysis.score = None
    /\ state.seo_analysis[1].seo_score = 5
    /\ HasMsgAt("reviewer", 1) /\ MsgAt("reviewer", 1).score = 1
    /\ state.current_iteration = 2

\* ------------------------------------------------------------------------
\* C15: whenever the candidate meta description of the reply is longer than
\* 160 characters, the meta description the SEO stage stores and the one
\* written to the exported file have length exactly 160 and end with "...".
\* ------------------------------------------------------------------------
Truncated160(text) == Len(text) = 160 /\ EndsWith(text, Ellipsis)
MetaCandidate == state.seo_analysis[1].detailed_analysis.meta_description

C15_MetaTruncated ==
    (Truthy(state.seo_analysis) /\ Len(MetaCandidate) > 160) =>
        /\ Truncated160(state.seo_analysis[1].meta_description)
        /\ \A f \in files :
               f.path.suffix = ".md" =>
                   Truncated160(f.content.meta_block.meta_description)

\* ------------------------------------------------------------------------
\* C17: without the generation-service credential the process exits with
\* code 1 before the orchestrator is created and before any search call,
\* generation call or file write.
\* ------------------------------------------------------------------------
C17_MissingKey ==
    ~args.api_key =>
        /\ mainpc \in {"verify_key", "exited"}
        /\ mainpc = "exited" => exit_code = Some(1)
        /\ pc = "none" /\ trace = <<>>
        /\ searchCalls = 0 /\ llmCalls = 0
        /\ files = {}

C17_Witness ==
    ~args.api_key /\ args.html /\ mainpc = "exited" /\ exit_code = Some(1)

\* ------------------------------------------------------------------------
\* C18: the exit code is 1 exactly when the credential is missing or an
\* exception was raised during generation or during export, and 0 in every
\* other run.
\* ------------------------------------------------------------------------
C18_ExitCode ==
    /\ exit_code # None <=> mainpc = "exited"
    /\ mainpc = "exited" =>
          /\ exit_code = (IF errors # {} THEN Some(1) ELSE Some(0))
          /\ "missing_key" \in errors <=> ~args.api_key
          /\ "generation" \in errors <=> pc = "raised"
          /\ "export" \in errors =>
                 (pc = "END" /\ args.html /\ to_html(SimpleResult(state)).raised)

\* a run that ends with 0 after writing the Markdown and the JSON file
C18_Witness ==
    /\ mainpc = "exited" /\ exit_code = Some(0) /\ args.json /\ pc = "END"
    /\ Cardinality(files) = 2

\* ------------------------------------------------------------------------
\* C19: whenever the process exits with code 1, no output file of the run
\* (.md, .html or .json) has been written.
\* ------------------------------------------------------------------------
C19_NoFileOnFailure == exit_code = Some(1) => files = {}

\* ------------------------------------------------------------------------
\* C20: when generation succeeds, the run exits with code 0, and it has
\* written the sibling .html (.json) file of the Markdown file iff --html
\* (--json) was given.
\* ------------------------------------------------------------------------
Written(suffix) == \E f \in files : f.path = with_suffix(output_path, suffix)

C20_Siblings ==
    (mainpc = "exited" /\ pc = "END") =>
        /\ exit_code = Some(0)
        /\ Written(".md")
        /\ Written(".html") <=> args.html
        /\ Written(".json") <=> args.json

\* ------------------------------------------------------------------------
\* C13: count_code_blocks returns the number of fenced code-block openers
\* tagged for Python (python or py) in the text, each opener counted once.
\* ------------------------------------------------------------------------
PythonOpeners(in) ==
    Cardinality({i \in 1..Len(in.parts) : in.parts[i] \in {FencePython, FencePy}})

C13_OpenersOnce ==
    (result # None /\ result[1].fn = "count_code_blocks") =>
        result[1].value = PythonOpeners(input)

\* ------------------------------------------------------------------------
\* C14: for a text with exactly k lines that, trimmed, start and end with
\* "|", count_tables returns floor(k / 3): 3 for k = 9, 0 for k < 3.
\* ------------------------------------------------------------------------
PipeLines(in) ==
    Cardinality({i \in 1..Len(in.parts) : in.parts[i] \in {LineTable, LinePadded}})

C14_TablesFloor ==
    (result # None /\ result[1].fn = "count_tables") =>
        /\ result[1].value = PipeLines(input) \div 3
        /\ PipeLines(input) = 9 => result[1].value = 3
        /\ PipeLines(input) < 3 => result[1].value = 0

\* nine pipe lines, some of them padded with blanks, counted as 3 tables
C14_Witness ==
    /\ result # None /\ result[1].fn = "count_tables"
    /\ PipeLines(input) = 9 /\ result[1].value = 3
    /\ \E i \in 1..Len(input.parts) : input.parts[i] = LinePadded

\* ------------------------------------------------------------------------
\* C21: the text of the Markdown file is the metadata banner, one blank
\* line, the final draft_content unchanged and the footer, in this order;
\* the reading time of the footer is floor(word_count / 200) for the
\* word_count shown in the "Word Count:" line of the banner.
\* ------------------------------------------------------------------------
Has(f, tok) == \E i \in 1..Len(f) : f[i] = tok
FirstIdx(f, tok) == CHOOSE i \in 1..Len(f) : f[i] = tok /\ \A j \in 1..(i - 1) : f[j] # tok
IsDigit(c) == \E d \in 1..10 : Digits[d] = c
DigitVal(c) == (CHOOSE d \in 1..10 : Digits[d] = c) - 1
\* the number written at position i of f, its thousands separators skipped
RECURSIVE NumFrom(_, _, _)
NumFrom(f, i, acc) ==
    IF i > Len(f) THEN acc
    ELSE IF IsDigit(f[i]) THEN NumFrom(f, i + 1, 10 * acc + DigitVal(f[i]))
    ELSE IF f[i] = "," THEN NumFrom(f, i + 1, acc)
    ELSE acc
NumAfter(f, tok) == NumFrom(f, FirstIdx(f, tok) + 1, 0)

MarkdownLayout(r, f) ==
    /\ Has(f, "-->") /\ Has(f, "Word Count: ")
    /\ LET e == FirstIdx(f, "-->")
           k == Len(r.draft_content)
           foot == From(f, e + 2 + k)
           shown == NumAfter(f, "Word Count: ")
       IN /\ f[1] = "<!--"
          /\ FirstIdx(f, "Word Count: ") < e
          /\ Len(f) >= e + 2 + k
          /\ f[e + 1] = NL /\ f[e + 2] = NL
          /\ SubSeq(f, e + 3, e + 2 + k) = r.draft_content
          /\ StartsWith(foot, <<NL, NL, "---">>)
          /\ Has(foot, "*Reading time: ~")
          /\ shown = r.word_count
          /\ NumAfter(foot, "*Reading time: ~") = shown \div 200

C21_MarkdownLayout ==
    /\ (result # None /\ result[1].fn = "full_content") =>
           MarkdownLayout(input.value, result[1].value)
    /\ \A f \in files : f.path.suffix = ".md" => MarkdownLayout(state, f.text)

\* a draft of 1234 words: "1,234" in the banner, 6 minutes in the footer
C21_Witness ==
    /\ result # None /\ result[1].fn = "full_content"
    /\ input.value.word_count = 1234
    /\ NumAfter(result[1].value, "*Reading time: ~") = 6
    /\ Has(result[1].value, ",")

\* ------------------------------------------------------------------------
\* C22: when a call of the language model fails in a stage (researcher
\* synthesis, writer, reviewer or SEO), the run aborts there: the call is
\* made once, the stage stores nothing, no later stage and no controller
\* executes, and the process exits with code 1.
\* ------------------------------------------------------------------------
CachedEntries == Cardinality({i \in MsgsOf("researcher") : IsCachedMsg(state.messages[i])})
CallingEntries ==
    Cardinality({i \in 1..Len(trace) : trace[i] \in Stages}) - CachedEntries

C22_Aborts ==
    pc = "raised" =>
        /\ trace # <<>> /\ trace[Len(trace)] \in Stages
        /\ llmCalls = CallingEntries
        /\ Cardinality(MsgsOf(RoleOf(trace[Len(trace)])))
               = CountOf(trace, trace[Len(trace)]) - 1
        /\ mainpc \in {"generate", "exited"}
        /\ mainpc = "exited" => (exit_code = Some(1) /\ "generation" \in errors)

C22_Stops ==
    (pc = "raised" \/ pc' = "raised") =>
        /\ state' = state
        /\ pc = "raised" => UNCHANGED <<pc, trace, prompt, searchCalls, llmCalls>>
        /\ pc # "raised" => (trace' = Append(trace, pc) /\ llmCalls' = llmCalls + 1)

C22_AbortOnFailure == []C22_Aborts /\ [][C22_Stops]_vars

\* the SEO call of the first cycle failed and the process has exited with 1
C22_Witness ==
    /\ pc = "raised" /\ trace = <<"researcher", "writer", "reviewer", "seo">>
    /\ mainpc = "exited" /\ exit_code = Some(1)
    /\ state.seo_analysis = None /\ Truthy(state.review_feedback)

\* ------------------------------------------------------------------------
\* C23: a failing web-search query never aborts the run: it contributes no
\* result, the other queries are still issued and contribute theirs, the
\* researcher goes on to the synthesis call and, when that call returns,
\* the writer runs next -- also when every query failed.
\* ------------------------------------------------------------------------
\* what the queries of a world that did not fail returned, in order
Answered(world) == SelectSeq(world.replies, LAMBDA reply : reply.ok)
Collected(world) ==
    Concat([q \in 1..Len(Answered(world)) |->
               IF world.tavily_key THEN search_with_tavily(Answered(world)[q])
               ELSE search_with_duckduckgo(Answered(world)[q])])
Engine(world) == IF world.tavily_key THEN "Tavily" ELSE "DuckDuckGo"

C23_Step ==
    (pc = "researcher" /\ ~researcher_cached(state)) =>
        /\ searchCalls' = searchCalls + 5
        /\ llmCalls' = llmCalls + 1
        /\ prompt'.stage = "researcher"
        /\ pc' \in {"writer", "raised"}
        /\ pc' = "writer" =>
              /\ Truthy(state'.research_context)
              /\ \E world \in SearchWorlds :
                     /\ state'.research_context[1].search_engine = Engine(world)
                     /\ state'.research_context[1].raw_sources
                            = Slice(DedupByUrl(Collected(world), {}), RESEARCH_MAX_RESULTS)

C23_SearchNeverAborts ==
    /\ [](pc = "raised" => llmCalls >= 1)
    /\ [][C23_Step]_vars

\* every query failed, yet the run went through the writer to its end
C23_Witness ==
    /\ pc = "END" /\ CountOf(trace, "writer") = 2
    /\ Truthy(state.research_context)
    /\ state.research_context[1].raw_sources = <<>>
    /\ state.draft_content # <<>>

\* ------------------------------------------------------------------------
\* C24: whatever text the language model returns, no parser of a stage
\* raises: in a run whose external calls all return no node raises, absent
\* researcher lists are stored empty, an absent score is stored as 5, and
\* absent reviewer and SEO fields are stored as their fallback values.
\* ------------------------------------------------------------------------
C24_ParsersTotal ==
    /\ pc # "raised"
    /\ Truthy(state.research_context) =>
          \A k \in {"key_facts", "statistics", "best_practices",
                    "recommended_topics", "key_sources"} :
              state.research_context[1].synthesis[k] = <<>>
                  => state.research_context[1][k] = <<>>
    /\ Truthy(state.review_feedback) =>
          LET fb == state.review_feedback[1]
              text == fb.detailed_feedback
          IN /\ text.score = None => fb.overall_score = 5
             /\ text.strengths = <<>> => fb.strengths = <<"Content is well-structured">>
             /\ text.improvements = <<>> => fb.improvements = <<"Consider adding more depth">>
             /\ text.priority_fixes = <<>> => fb.priority_fixes = <<"Expand key sections">>
    /\ Truthy(state.seo_analysis) =>
          LET an == state.seo_analysis[1]
              text == an.detailed_analysis
          IN /\ text.score = None => an.seo_score = 5
             /\ text.primary_keywords = <<>> => an.primary_keywords = <<LowerStr(state.topic)>>
             /\ text.secondary_keywords = <<>> => an.secondary_keywords = <<>>
             /\ (text.optimized_title = <<>> /\ pc = "controller")
                    => an.optimized_title = state.title
             /\ text.meta_description = <<>> => an.meta_description = LearnAbout(state.topic)
             /\ text.content_suggestions = <<>> => an.content_suggestions = <<>>

\* ------------------------------------------------------------------------
\* C25: the sources perform_research returns have pairwise distinct URLs,
\* are the first occurrences of their URLs among the collected results, in
\* the order of collection, and are at most max_results many.
\* ------------------------------------------------------------------------
\* the positions of the collected results whose URL did not occur before
FirstSeen(all) == {i \in 1..Len(all) : \A j \in 1..(i - 1) : all[j].url # all[i].url}
Nth(S, k) == CHOOSE i \in S : Cardinality({j \in S : j < i}) = k - 1

C25_Sources ==
    (result # None /\ result[1].fn = "perform_research") =>
        LET sources == result[1].value.sources
            all == Collected(input.world)
        IN /\ \A i, j \in 1..Len(sources) : i # j => sources[i].url # sources[j].url
           /\ Len(sources) <= RESEARCH_MAX_RESULTS
           /\ Len(sources) <= Cardinality(FirstSeen(all))
           /\ \A k \in 1..Len(sources) : sources[k] = all[Nth(FirstSeen(all), k)]

\* 15 results collected, 11 of them with a new URL, 10 returned
C25_Witness ==
    /\ result # None /\ result[1].fn = "perform_research"
    /\ Len(Collected(input.world)) = 15
    /\ Cardinality(FirstSeen(Collected(input.world))) = 11
    /\ Len(result[1].value.sources) = 10

\* ------------------------------------------------------------------------
\* C26 as stated: extract_title returns the text after the marker of the
\* first line of the draft that begins with "# ", and the title-cased topic
\* if and only if no line of the draft begins with "# ".
\* ------------------------------------------------------------------------
Marker == <<"#", " ">>
Headings(lines) == {i \in 1..Len(lines) : StartsWith(lines[i], Marker)}

C26_Original ==
    (result # None /\ result[1].fn = "extract_title") =>
        LET hits == Headings(input.parts)
        IN /\ hits # {} => result[1].value = From(input.parts[Nth(hits, 1)], 2)
           /\ hits = {} => result[1].value = TitleCase(input.topic)

\* ------------------------------------------------------------------------
\* C26, amended: extract_title trims the draft first; it returns the trimmed
\* text after the marker of the first line of the trimmed draft that begins
\* with "# ", and the title-cased topic if and only if no line of the
\* trimmed draft begins with "# ".
\* ------------------------------------------------------------------------
\* the lines of the draft once the draft is trimmed: blank lines at both
\* ends dropped, the first line trimmed on the left, the last on the right
TrimmedLines(parts) ==
    LET inked == {i \in 1..Len(parts) : Strip(parts[i]) # <<>>}
        lo == Nth(inked, 1)
        hi == Nth(inked, Cardinality(inked))
    IN IF inked = {} THEN << <<>> >>
       ELSE [i \in 1..(hi - lo + 1) |->
                LET l == parts[lo + i - 1]
                    l1 == IF i = 1 THEN LStrip(l) ELSE l
                IN IF i = hi - lo + 1 THEN RStrip(l1) ELSE l1]

C26_TitleTrimmed ==
    (result # None /\ result[1].fn = "extract_title") =>
        LET lines == TrimmedLines(input.parts)
            hits == Headings(lines)
        IN /\ hits # {} => result[1].value = Strip(From(lines[Nth(hits, 1)], 2))
           /\ hits = {} => result[1].value = TitleCase(input.topic)

\* an indented heading on the first line is the title; a later heading is not
C26_Witness ==
    /\ result # None /\ result[1].fn = "extract_title"
    /\ input.parts = << <<>>, <<" ", "#", " ", "A">>, <<"#", " ", "T">> >>
    /\ result[1].value = <<"A">>

\* ------------------------------------------------------------------------
\* C27: for every max_iterations (positive, zero or negative), a run in
\* which every external call returns reaches END after finitely many stage
\* executions.
\* ------------------------------------------------------------------------
C27_ReachesEnd == <>(pc = "END")

\* ------------------------------------------------------------------------
\* C28: a run started with max_iterations <= 0 does not skip generation:
\* its stages run in the order of one cycle, END is reached after exactly
\* one full researcher, writer, reviewer, SEO cycle, the first invocation
\* of the controller sets is_complete, and current_iteration stays 1.
\* ------------------------------------------------------------------------
C28_OneCycle ==
    N <= 0 =>
        /\ state.current_iteration = 1
        /\ IsPrefix(trace, Cycle)
        /\ pc \notin {"END", "raised"} => pc = Cycle[Len(trace) + 1]
        /\ pc = "END" <=> trace = Cycle
        /\ state.is_complete <=> CountOf(trace, "controller") = 1
        /\ pc = "END" =>
              /\ llmCalls = 4 /\ searchCalls = Len(Queries(state.topic))
              /\ state.draft_content # <<>>
              /\ Truthy(state.research_context) /\ Truthy(state.review_feedback)
              /\ Truthy(state.seo_analysis)

C28_Witness ==
    /\ N = 0 - NegN /\ pc = "END" /\ trace = Cycle
    /\ state.is_complete /\ state.current_iteration = 1

\* ------------------------------------------------------------------------
\* C29: only the writer changes the draft: every execution of the
\* researcher, the reviewer, the SEO stage and the controller leaves
\* draft_content, title, word_count, code_block_count and table_count
\* unchanged (the optimized_title of the SEO stage is never stored as the
\* title), and no stage changes topic or max_iterations.
\* ------------------------------------------------------------------------
DraftKeys == {"draft_content", "title", "word_count", "code_block_count", "table_count"}

C29_Step ==
    /\ state'.topic = state.topic
    /\ state'.max_iterations = state.max_iterations
    /\ pc # "writer" => \A k \in DraftKeys : state'[k] = state[k]

C29_OnlyWriter == [][C29_Step]_vars

\* the SEO stage has proposed a title other than the stored one
C29_Witness ==
    /\ pc = "controller" /\ Truthy(state.seo_analysis)
    /\ state.seo_analysis[1].optimized_title = <<"B", "a">>
    /\ state.title = <<"T">>
    /\ state.current_iteration = 2

\* ------------------------------------------------------------------------
\* C30: final_review_score and final_seo_score are both 0 in every state
\* in which is_complete is false and both lie in 1..10 in every state in
\* which is_complete is true; the controller never runs with the review or
\* the SEO analysis absent.
\* ------------------------------------------------------------------------
C30_FinalScoreRange ==
    /\ ~state.is_complete =>
          (state.final_review_score = 0 /\ state.final_seo_score = 0)
    /\ state.is_complete =>
          (state.final_review_score \in 1..10 /\ state.final_seo_score \in 1..10)
    /\ pc = "controller" =>
          (Truthy(state.review_feedback) /\ Truthy(state.seo_analysis))

\* a completed run whose last review scored 0 (stored as 1) and whose last
\* SEO reply carried no score (stored as 5)
C30_Witness ==
    /\ pc = "END" /\ state.is_complete
    /\ state.review_feedback[1].detailed_feedback.score = Some(0)
    /\ state.final_review_score = 1
    /\ state.final_seo_score = 5

====
